---- MODULE Spec2Model ----
(***************************************************************************)
(* A model of the request pipeline of the URL shortener backend:           *)
(*   backend/src/middlewares/authenticated.ts   (isAuthenticated)          *)
(*   backend/src/modules/urls/controller.ts     (createShortUrl, ...)      *)
(* The token codec (decryptAccessToken), sendResponse, handleCustomError   *)
(* and the urls service (create, get) are imported by these files but are  *)
(* not among the sources; they are modelled from the specification.        *)
(* The users service (signup, login) is not among the sources either; of   *)
(* login the first statements are quoted in CODE_REVIEW.md, the rest is    *)
(* modelled from the specification.                                        *)
(*                                                                         *)
(* A JavaScript value that may be undefined is a sequence of length 0 or   *)
(* 1; the empty object {} is the empty function <<>>.                      *)
(***************************************************************************)
EXTENDS Integers, Sequences, FiniteSets, TLC

VARIABLES
    now,    \* the wall clock the token codec reads
    urls,   \* the short-url mapping collection
    req,    \* the requests in flight, one per connection
    returned, \* history: the (short code, url) pairs createShortUrl has answered with
    whiteList, \* the contents of the module-level array whiteListEndpoints
    users,  \* the user collection
    reply,  \* per connection, the answer to its latest signup or signin call
    signedUp \* history: the (email, password) pairs signup has accepted

vars == <<now, urls, req, returned, whiteList, users, reply, signedUp>>

----------------------------------------------------------------------------
(* Bounds and input domains *)

MaxTime == 2

(* The latest time at which a presented token was minted. *)
MaxIssuedAt == 0

Reqs == {"r1", "r2"}

Users == {"u1", "u2"}

(* The email address each user signs up with. *)
EmailOf(userId) == IF userId = "u1" THEN "ann@example.com" ELSE "bob@example.com"

Codes == {"c1", "c2"}

(* The urlId parameters requests to the getAllShortUrlsByUser route carry. *)
UserRouteCodes == {"c1"}

(* The originalUrl values a create request's body can carry: two absolute  *)
(* URLs and a relative reference.                                          *)
OriginalUrls ==
    {[scheme |-> "https", host |-> "example.com", path |-> "/a/b"],
     [scheme |-> "http", host |-> "example.org", path |-> "/"],
     [scheme |-> "", host |-> "", path |-> "a/b"]}

(* The Origin header of a create request. *)
Origins == {"https://short.ly"}

(* Token lifetime, an injected configuration value. *)
TokenLifetime == 1

(* HttpStatusCode.Unauthorized *)
Unauthorized == 401

----------------------------------------------------------------------------
(* Token codec *)

(* mint(claims) at time t: a signed token carrying the claims and an       *)
(* expiry derived from the configured lifetime.                            *)
mint(userId, t) ==
    [kind |-> "signed", userId |-> userId, email |-> EmailOf(userId),
     iat |-> t, exp |-> t + TokenLifetime]

(* A string that is no token signed with the process secret, named by what *)
(* the codec makes of it.                                                  *)
Unsigned(kind) == [kind |-> kind, userId |-> "", email |-> "", iat |-> 0, exp |-> 0]

(* The claims embedded in a token. *)
ClaimsOf(tok) ==
    [userId |-> tok.userId, email |-> tok.email, iat |-> tok.iat, exp |-> tok.exp]

(* The tokens that can exist at time t: every token minted so far, and the *)
(* strings that are not validly signed tokens.                             *)
Tokens(t) ==
    {mint(u, i) : u \in Users, i \in {i \in 0..MaxIssuedAt : i <= t}}
        \cup {Unsigned(k) : k \in {"malformed", "invalid", "unclassified"}}

(* The name of the error the codec throws for an unsigned string. *)
ErrorNameOf(kind) ==
    CASE kind = "malformed" -> "JsonWebTokenError"
      [] kind = "invalid"   -> "validationError"
      [] OTHER              -> "NotBeforeError"   \* any name the catch block does not list

(* decryptAccessToken(token) run at time t: the claims, or the thrown      *)
(* error's name.                                                           *)
decryptAccessToken(tok, t) ==
    IF tok.kind = "signed"
    THEN IF t > tok.exp
         THEN [ok |-> FALSE, name |-> "TokenExpiredError", claims |-> <<>>]
         ELSE [ok |-> TRUE, name |-> "", claims |-> <<ClaimsOf(tok)>>]
    ELSE [ok |-> FALSE, name |-> ErrorNameOf(tok.kind), claims |-> <<>>]

----------------------------------------------------------------------------
(* Requests *)

(* The Authorization header values a client can send at time t: none, or a *)
(* string that does or does not start with "Bearer " and that the codec    *)
(* reads as the token tok.                                                 *)
Headers(t) ==
    {<<>>} \cup {<<[bearer |-> b, tok |-> k]>> : b \in BOOLEAN, k \in Tokens(t)}

(* The routes a request can be dispatched to, with the url the middleware  *)
(* sees.                                                                   *)
Targets ==
    {[route |-> "createShortUrl", method |-> "POST", url |-> "/urls/short", urlId |-> ""]}
        \cup {[route |-> "getShortUrl", method |-> "GET", url |-> "/urls/" \o c,
               urlId |-> c] : c \in Codes}
        \cup {[route |-> "getAllShortUrlsByUser", method |-> "GET",
               url |-> "/urls/user/" \o c, urlId |-> c] : c \in UserRouteCodes}

NewReq(h, target) ==
    [pc        |-> "isAuthenticated",
     header    |-> h,
     method    |-> target.method,
     url       |-> target.url,
     route     |-> target.route,
     urlId     |-> target.urlId,
     user      |-> <<>>,
     nextCalls |-> 0,
     codecCalls |-> 0,
     err       |-> <<>>,
     responses |-> <<>>,
     errors    |-> <<>>,
     body      |-> <<>>,
     args      |-> <<>>,
     serviceCalls |-> 0,
     newId     |-> "",
     outcome   |-> <<>>]

Idle ==
    [NewReq(<<>>, [route |-> "", method |-> "", url |-> "", urlId |-> ""])
        EXCEPT !.pc = "idle"]

(* sendResponse(res, status, data, message), called by `by`: the request   *)
(* is answered with the envelope.                                          *)
sendResponse(q, by, status, data, message) ==
    [q EXCEPT !.pc = "done",
              !.responses = Append(@, [by |-> by, status |-> status,
                                       data |-> data, message |-> message])]

----------------------------------------------------------------------------
(* Auth middleware *)

(* Variant: the exemption list left empty. *)
whiteListEndpoints_Empty == {}

whiteListEndpoints == {"/urls/short"}

(* Variant: the corrupt-token answer carries the expired flag too. *)
AuthCatch_FlagOnCorrupt(q, name) ==
    IF name = "TokenExpiredError"
    THEN sendResponse(q, "isAuthenticated", Unauthorized,
                      [tokenExpired |-> 1], "Token Expired")
    ELSE IF name = "JsonWebTokenError"
    THEN sendResponse(q, "isAuthenticated", Unauthorized,
                      [tokenExpired |-> 1], "Corrupt Token")
    ELSE IF name = "validationError"
    THEN sendResponse(q, "isAuthenticated", Unauthorized,
                      [tokenExpired |-> 0], "validationError")
    ELSE [q EXCEPT !.pc = "done"]

(* Variant: the JsonWebTokenError branch is missing. *)
AuthCatch_CorruptUnhandled(q, name) ==
    IF name = "TokenExpiredError"
    THEN sendResponse(q, "isAuthenticated", Unauthorized,
                      [tokenExpired |-> 1], "Token Expired")
    ELSE IF name = "validationError"
    THEN sendResponse(q, "isAuthenticated", Unauthorized,
                      [tokenExpired |-> 0], "validationError")
    ELSE [q EXCEPT !.pc = "done"]

(* The catch block of isAuthenticated: an error of a name it does not list *)
(* falls through to `return 0` with no response.                           *)
AuthCatch(q, name) ==
    IF name = "TokenExpiredError"
    THEN sendResponse(q, "isAuthenticated", Unauthorized,
                      [tokenExpired |-> 1], "Token Expired")
    ELSE IF name = "JsonWebTokenError"
    THEN sendResponse(q, "isAuthenticated", Unauthorized,
                      [tokenExpired |-> 0], "Corrupt Token")
    ELSE IF name = "validationError"
    THEN sendResponse(q, "isAuthenticated", Unauthorized,
                      [tokenExpired |-> 0], "validationError")
    ELSE [q EXCEPT !.pc = "done"]

(* next(): the request goes on to its route handler. *)
CallNext(q) == [q EXCEPT !.pc = q.route, !.nextCalls = @ + 1]

(* Variant: the 401 of the header-less branch is not returned, so         *)
(* execution falls through to next().                                      *)
AuthNoToken_FallThrough(q) ==
    IF q.url \in {"/urls/short"}
    THEN [q EXCEPT !.pc = q.route, !.nextCalls = @ + 1]
    ELSE [q EXCEPT !.pc = q.route, !.nextCalls = @ + 1,
                   !.responses = Append(@, [by |-> "isAuthenticated", status |-> 401,
                                            data |-> [tokenExpired |-> 0],
                                            message |-> "Failed to Authenticate"])]

(* Variant: the url is matched by its path, ignoring a query string and a  *)
(* trailing slash.                                                         *)
AuthNoToken_PathMatch(q) ==
    IF q.url \in {"/urls/short", "/urls/short?ref=mail", "/urls/short/"}
    THEN CallNext(q)
    ELSE sendResponse(q, "isAuthenticated", Unauthorized,
                      [tokenExpired |-> 0], "Failed to Authenticate")

(* The branch taken when no Authorization header is present. *)
AuthNoToken(q) ==
    IF q.url \in whiteList
    THEN CallNext(q)
    ELSE sendResponse(q, "isAuthenticated", Unauthorized,
                      [tokenExpired |-> 0], "Failed to Authenticate")

(* Variant: next() is called without the decoded claims being saved. *)
AuthWithToken_NoUser(q, t) ==
    LET decoded == decryptAccessToken(q.header[1].tok, t)
        q1 == [q EXCEPT !.codecCalls = @ + 1]
    IN  IF decoded.ok
        THEN [q1 EXCEPT !.pc = q.route, !.nextCalls = @ + 1]
        ELSE [q1 EXCEPT !.pc = "done", !.err = <<decoded.name>>,
                        !.responses = Append(@, [by |-> "isAuthenticated", status |-> 401,
                                                 data |-> [tokenExpired |-> 0],
                                                 message |-> "Corrupt Token"])]

(* Variant: the token is decoded without its expiry being checked. *)
AuthWithToken_DecodeOnly(q, t) ==
    LET q1 == [q EXCEPT !.codecCalls = @ + 1]
        tok == q.header[1].tok
    IN  IF tok.kind = "signed"
        THEN [q1 EXCEPT !.pc = q.route, !.nextCalls = @ + 1,
                        !.user = <<[userId |-> tok.userId, email |-> tok.email,
                                    iat |-> tok.iat, exp |-> tok.exp]>>]
        ELSE [q1 EXCEPT !.pc = "done", !.err = <<"JsonWebTokenError">>,
                        !.responses = Append(@, [by |-> "isAuthenticated", status |-> 401,
                                                 data |-> [tokenExpired |-> 0],
                                                 message |-> "Corrupt Token"])]

(* The branch taken when a header is present: the whole header value is    *)
(* handed to the codec.                                                    *)
AuthWithToken(q, t) ==
    LET decoded == decryptAccessToken(q.header[1].tok, t)
        q1 == [q EXCEPT !.codecCalls = @ + 1]
    IN  IF decoded.ok
        THEN CallNext([q1 EXCEPT !.user = decoded.claims])
        ELSE AuthCatch([q1 EXCEPT !.err = <<decoded.name>>], decoded.name)

(* Variant: the exemption list is consulted before the header is looked at. *)
isAuthenticatedRun_ExemptFirst(q, t) ==
    IF q.url \in whiteList THEN CallNext(q)
    ELSE IF q.header = <<>> THEN AuthNoToken(q) ELSE AuthWithToken(q, t)

isAuthenticatedRun(q, t) ==
    IF q.header = <<>> THEN AuthNoToken(q) ELSE AuthWithToken(q, t)

(* Variant: the decoded claims are saved on an object all requests in      *)
(* flight share.                                                           *)
isAuthenticated_SharedUser(r) ==
    /\ req[r].pc = "idle"
    /\ \E h \in Headers(now), target \in Targets :
          LET q == isAuthenticatedRun(NewReq(h, target), now)
          IN  req' = [s \in Reqs |->
                         IF s = r THEN q
                         ELSE IF req[s].pc \notin {"idle", "done"} /\ q.user # <<>>
                         THEN [req[s] EXCEPT !.user = q.user]
                         ELSE req[s]]
    /\ UNCHANGED <<now, urls, returned, whiteList, users, reply, signedUp>>

(* A request arrives and runs through the middleware. *)
isAuthenticated(r) ==
    /\ req[r].pc = "idle"
    /\ \E h \in Headers(now), target \in Targets :
          req' = [req EXCEPT ![r] = isAuthenticatedRun(NewReq(h, target), now)]
    /\ UNCHANGED <<now, urls, returned, whiteList, users, reply, signedUp>>

----------------------------------------------------------------------------
(* URL service and error classifier *)

(* Whether originalUrl parses as an absolute URL. *)
IsAbsoluteUrl(u) == u.scheme # "" /\ u.host # ""

ShortUrlOf(baseURL, urlId) == baseURL \o "/" \o urlId

Resolved(value) == <<[ok |-> TRUE, value |-> value, name |-> ""]>>

Rejected(name) == <<[ok |-> FALSE, value |-> <<>>, name |-> name]>>

(* The fixed mapping from error kind to status code. *)
StatusOfError(name) ==
    CASE name = "InvalidUrl"      -> 422
      [] name = "NotFound"        -> 404
      [] name = "Unauthenticated" -> 401
      [] OTHER                    -> 500

handleCustomError(q, by, name) ==
    sendResponse(q, by, StatusOfError(name), <<>>, name)

(* create: the url is validated and a short code is generated, one that no *)
(* existing mapping holds.                                                 *)
createGenerate(r) ==
    /\ req[r].pc = "create"
    /\ LET a == req[r].args[1]
       IN  IF ~IsAbsoluteUrl(a.originalUrl)
           THEN req' = [req EXCEPT ![r].pc = "createShortUrlResume",
                                   ![r].outcome = Rejected("InvalidUrl")]
           ELSE \E c \in Codes :
                   /\ \A m \in urls : m.urlId # c
                   /\ req' = [req EXCEPT ![r].pc = "save", ![r].newId = c]
    /\ UNCHANGED <<now, urls, returned, whiteList, users, reply, signedUp>>

(* Variant: the insert is an upsert keyed by the short code, so a second   *)
(* create with the same code replaces the stored mapping.                  *)
createSave_Upsert(r) ==
    /\ req[r].pc = "save"
    /\ LET a == req[r].args[1]
           c == req[r].newId
       IN  /\ urls' = {m \in urls : m.urlId # c}
                         \cup {[urlId |-> c, originalUrl |-> a.originalUrl,
                                userId |-> a.userId]}
           /\ req' = [req EXCEPT ![r].pc = "createShortUrlResume",
                                  ![r].outcome =
                                      Resolved([shortUrl |-> ShortUrlOf(a.baseURL, c)])]
    /\ UNCHANGED <<now, returned, whiteList, users, reply, signedUp>>

(* Variant: the collection has no uniqueness constraint on the short code. *)
createSave_NoConstraint(r) ==
    /\ req[r].pc = "save"
    /\ LET a == req[r].args[1]
           c == req[r].newId
       IN  /\ urls' = urls \cup {[urlId |-> c, originalUrl |-> a.originalUrl,
                                   userId |-> a.userId]}
           /\ req' = [req EXCEPT ![r].pc = "createShortUrlResume",
                                  ![r].outcome =
                                      Resolved([shortUrl |-> ShortUrlOf(a.baseURL, c)])]
    /\ UNCHANGED <<now, returned, whiteList, users, reply, signedUp>>

(* create: the mapping is inserted; the collection's uniqueness constraint *)
(* on the short code rejects a duplicate.                                  *)
createSave(r) ==
    /\ req[r].pc = "save"
    /\ LET a == req[r].args[1]
           c == req[r].newId
       IN  IF \E m \in urls : m.urlId = c
           THEN /\ req' = [req EXCEPT ![r].pc = "createShortUrlResume",
                                      ![r].outcome = Rejected("MongoServerError")]
                /\ UNCHANGED urls
           ELSE /\ urls' = urls \cup {[urlId |-> c, originalUrl |-> a.originalUrl,
                                       userId |-> a.userId]}
                /\ req' = [req EXCEPT ![r].pc = "createShortUrlResume",
                                      ![r].outcome =
                                          Resolved([shortUrl |-> ShortUrlOf(a.baseURL, c)])]
    /\ UNCHANGED <<now, returned, whiteList, users, reply, signedUp>>

(* get: the mapping of the code is read. *)
get(r) ==
    /\ req[r].pc = "get"
    /\ LET found == {m \in urls : m.urlId = req[r].args[1]}
       IN  req' = [req EXCEPT ![r].pc = req[r].route \o "Resume",
                              ![r].outcome =
                                  IF found = {}
                                  THEN Rejected("NotFound")
                                  ELSE Resolved((CHOOSE m \in found : TRUE).originalUrl)]
    /\ UNCHANGED <<now, urls, returned, whiteList, users, reply, signedUp>>

----------------------------------------------------------------------------
(* URL controller *)

(* The 422 answer to a request whose validation reported errors. *)
ValidationFailed(q, by) ==
    sendResponse([q EXCEPT !.errors = <<"errors">>], by, 422, <<>>,
                 [errors |-> <<"errors">>])

(* Variant: the caller's identity, when there is one, is passed as userId. *)
CallCreate_Owner(q, originalUrl, baseURL) ==
    [q EXCEPT !.pc = "create",
              !.serviceCalls = @ + 1,
              !.args = <<[originalUrl |-> originalUrl, baseURL |-> baseURL,
                          userId |-> IF q.user # <<>> THEN q.user[1].userId ELSE ""]>>]

(* create({ originalUrl, baseURL, userId }) is called and awaited. *)
CallCreate(q, originalUrl, baseURL) ==
    [q EXCEPT !.pc = "create",
              !.serviceCalls = @ + 1,
              !.args = <<[originalUrl |-> originalUrl, baseURL |-> baseURL,
                          userId |-> ""]>>]

(* createShortUrl up to its await. *)
createShortUrlRun(q, errorsEmpty, baseURL) ==
    IF ~errorsEmpty
    THEN ValidationFailed(q, "createShortUrl")
    ELSE CallCreate(q, q.body[1], baseURL)

createShortUrl(r) ==
    /\ req[r].pc = "createShortUrl"
    /\ \E errorsEmpty \in BOOLEAN, originalUrl \in OriginalUrls, baseURL \in Origins :
          req' = [req EXCEPT ![r] =
                     createShortUrlRun([req[r] EXCEPT !.body = <<originalUrl>>],
                                       errorsEmpty, baseURL)]
    /\ UNCHANGED <<now, urls, returned, whiteList, users, reply, signedUp>>

(* Variant: only the errors of the taxonomy are caught; any other error    *)
(* leaves the handler and the request gets no answer.                      *)
CreateAnswer_Uncaught(q) ==
    IF q.outcome[1].ok
    THEN sendResponse(q, "createShortUrl", 201, q.outcome[1].value, "genericSuccess")
    ELSE IF q.outcome[1].name \in {"InvalidUrl", "NotFound", "Unauthenticated"}
    THEN handleCustomError(q, "createShortUrl", q.outcome[1].name)
    ELSE [q EXCEPT !.pc = "done"]

(* Variant: every error of create is answered as a server error. *)
CreateAnswer_Always500(q) ==
    IF q.outcome[1].ok
    THEN sendResponse(q, "createShortUrl", 201, q.outcome[1].value, "genericSuccess")
    ELSE sendResponse(q, "createShortUrl", 500, <<>>, q.outcome[1].name)

(* createShortUrl once create has settled. *)
CreateAnswer(q) ==
    IF q.outcome[1].ok
    THEN sendResponse(q, "createShortUrl", 201, q.outcome[1].value, "genericSuccess")
    ELSE handleCustomError(q, "createShortUrl", q.outcome[1].name)

(* The short codes a short url answered to a client names. *)
CodesOf(shortUrl, baseURL) == {c \in Codes : ShortUrlOf(baseURL, c) = shortUrl}

(* What a 201 answer of createShortUrl tells the client: the url it asked  *)
(* to shorten and the short code it got back.                              *)
ReturnedBy(q) ==
    LET last == q.responses[Len(q.responses)]
    IN  IF q.responses # <<>> /\ last.status = 201
        THEN {[urlId |-> c, originalUrl |-> q.body[1]] :
                 c \in CodesOf(last.data.shortUrl, q.args[1].baseURL)}
        ELSE {}

createShortUrlResume(r) ==
    /\ req[r].pc = "createShortUrlResume"
    /\ req' = [req EXCEPT ![r] = CreateAnswer(req[r])]
    /\ returned' = returned \cup ReturnedBy(req'[r])
    /\ UNCHANGED <<now, urls, whiteList, users, reply, signedUp>>

(* Variant: the request url is passed in place of the urlId parameter. *)
CallGet_ByUrl(q) ==
    [q EXCEPT !.pc = "get", !.serviceCalls = @ + 1, !.args = <<q.url>>]

(* get(urlId) is called and awaited. *)
CallGet(q) ==
    [q EXCEPT !.pc = "get", !.serviceCalls = @ + 1, !.args = <<q.urlId>>]

(* Variant: the 422 answer is sent but not returned, so get is called too. *)
getShortUrlRun_NoReturn(q, errorsEmpty) ==
    IF ~errorsEmpty
    THEN CallGet([q EXCEPT !.errors = <<"errors">>,
                           !.responses = Append(@, [by |-> "getShortUrl", status |-> 422,
                                                    data |-> <<>>,
                                                    message |-> [errors |-> <<"errors">>]])])
    ELSE CallGet(q)

(* getShortUrl up to its await. *)
getShortUrlRun(q, errorsEmpty) ==
    IF ~errorsEmpty
    THEN ValidationFailed(q, "getShortUrl")
    ELSE CallGet(q)

getShortUrl(r) ==
    /\ req[r].pc = "getShortUrl"
    /\ \E errorsEmpty \in BOOLEAN :
          req' = [req EXCEPT ![r] = getShortUrlRun(req[r], errorsEmpty)]
    /\ UNCHANGED <<now, urls, returned, whiteList, users, reply, signedUp>>

(* Variant: every error of get is answered as a server error. *)
GetAnswer_Always500(q) ==
    IF q.outcome[1].ok
    THEN sendResponse(q, "getShortUrl", 201, [originalUrl |-> q.outcome[1].value],
                      "genericSuccess")
    ELSE sendResponse(q, "getShortUrl", 500, <<>>, q.outcome[1].name)

(* getShortUrl once get has settled. *)
GetAnswer(q) ==
    IF q.outcome[1].ok
    THEN sendResponse(q, "getShortUrl", 201, [originalUrl |-> q.outcome[1].value],
                      "genericSuccess")
    ELSE handleCustomError(q, "getShortUrl", q.outcome[1].name)

getShortUrlResume(r) ==
    /\ req[r].pc = "getShortUrlResume"
    /\ req' = [req EXCEPT ![r] = GetAnswer(req[r])]
    /\ UNCHANGED <<now, urls, returned, whiteList, users, reply, signedUp>>

(* getAllShortUrlsByUser up to its await: the same statements as          *)
(* getShortUrl.                                                            *)
getAllShortUrlsByUserRun(q, errorsEmpty) ==
    IF ~errorsEmpty
    THEN ValidationFailed(q, "getAllShortUrlsByUser")
    ELSE CallGet(q)

getAllShortUrlsByUser(r) ==
    /\ req[r].pc = "getAllShortUrlsByUser"
    /\ \E errorsEmpty \in BOOLEAN :
          req' = [req EXCEPT ![r] = getAllShortUrlsByUserRun(req[r], errorsEmpty)]
    /\ UNCHANGED <<now, urls, returned, whiteList, users, reply, signedUp>>

(* getAllShortUrlsByUser once get has settled. *)
GetAllAnswer(q) ==
    IF q.outcome[1].ok
    THEN sendResponse(q, "getAllShortUrlsByUser", 201,
                      [originalUrl |-> q.outcome[1].value], "genericSuccess")
    ELSE handleCustomError(q, "getAllShortUrlsByUser", q.outcome[1].name)

getAllShortUrlsByUserResume(r) ==
    /\ req[r].pc = "getAllShortUrlsByUserResume"
    /\ req' = [req EXCEPT ![r] = GetAllAnswer(req[r])]
    /\ UNCHANGED <<now, urls, returned, whiteList, users, reply, signedUp>>

----------------------------------------------------------------------------
(* Users service *)

(* The passwords clients type. *)
Passwords == {"Abcdef12", "Abcdef13"}

(* Variant: the digest does not depend on the payload. *)
generateHash_Constant(payload) == <<"sha512", "">>

(* generateHash(payload): the hex SHA-512 digest of the payload, a value   *)
(* that determines the payload and is not the payload.                     *)
generateHash(payload) == <<"sha512", payload>>

NoReply == [op |-> "", email |-> "", password |-> "", status |-> 0, error |-> "",
            token |-> <<>>]

UserReply(op, email, password, status, error, token) ==
    [op |-> op, email |-> email, password |-> password, status |-> status,
     error |-> error, token |-> token]

(* signup: the account is inserted with the hash of its password; the      *)
(* collection's uniqueness constraint on the email rejects a second        *)
(* account of the same email.                                              *)
signup(r, u, password) ==
    LET email == EmailOf(u)
    IN  /\ IF \E x \in users : x.email = email
           THEN /\ reply' = [reply EXCEPT ![r] =
                                UserReply("signup", email, password,
                                          StatusOfError("MongoServerError"),
                                          "MongoServerError", <<>>)]
                /\ UNCHANGED <<users, signedUp>>
           ELSE /\ users' = users \cup {[id |-> u, email |-> email,
                                          password |-> generateHash(password)]}
                /\ signedUp' = signedUp \cup {[email |-> email, password |-> password]}
                /\ reply' = [reply EXCEPT ![r] =
                                UserReply("signup", email, password, 201, "", <<>>)]
        /\ UNCHANGED <<now, urls, req, returned, whiteList>>

(* login: the supplied password is hashed and the account is looked up by  *)
(* email and hash; a token is minted for the account found, and no account *)
(* found is an invalid-credentials error.                                  *)
login(r, email, password) ==
    LET hashedPassword == generateHash(password)
        res == {x \in users : x.email = email /\ x.password = hashedPassword}
    IN  /\ reply' = [reply EXCEPT ![r] =
                        IF res = {}
                        THEN UserReply("signin", email, password,
                                       StatusOfError("Unauthenticated"),
                                       "Unauthenticated", <<>>)
                        ELSE UserReply("signin", email, password, 200, "",
                                       <<mint((CHOOSE x \in res : TRUE).id, now)>>)]
        /\ UNCHANGED <<now, urls, req, returned, whiteList, users, signedUp>>

signin(r) ==
    \E u \in Users, password \in Passwords : login(r, EmailOf(u), password)

----------------------------------------------------------------------------
(* Environment *)

Tick ==
    /\ now < MaxTime
    /\ now' = now + 1
    /\ UNCHANGED <<urls, req, returned, whiteList, users, reply, signedUp>>

(* The connection of a finished request is reused. *)
Close(r) ==
    /\ req[r].pc = "done"
    /\ req' = [req EXCEPT ![r] = Idle]
    /\ UNCHANGED <<now, urls, returned, whiteList, users, reply, signedUp>>

Init ==
    /\ now = 0
    /\ urls = {}
    /\ returned = {}
    /\ req = [r \in Reqs |-> Idle]
    /\ whiteList = whiteListEndpoints
    /\ users = {}
    /\ reply = [r \in Reqs |-> NoReply]
    /\ signedUp = {}

Next ==
    \/ \E r \in Reqs : isAuthenticated(r)
    \/ \E r \in Reqs : createShortUrl(r)
    \/ \E r \in Reqs : createGenerate(r)
    \/ \E r \in Reqs : createSave(r)
    \/ \E r \in Reqs : createShortUrlResume(r)
    \/ \E r \in Reqs : getShortUrl(r)
    \/ \E r \in Reqs : get(r)
    \/ \E r \in Reqs : getShortUrlResume(r)
    \/ \E r \in Reqs : getAllShortUrlsByUser(r)
    \/ \E r \in Reqs : getAllShortUrlsByUserResume(r)
    \/ \E r \in Reqs : Close(r)
    \/ Tick

Spec == Init /\ [][Next]_vars

(* The middleware on its own, in front of the create route, for every      *)
(* method and for the forms in which the route's url can reach it: as      *)
(* registered, with a query string, with a trailing slash, and with the    *)
(* mount prefix of the v1 router left on.                                  *)
Methods == {"GET", "POST", "DELETE"}

UrlForms == {"/urls/short", "/urls/short?ref=mail", "/urls/short/", "/api/v1/urls/short"}

isAuthenticatedAnyUrl(r) ==
    /\ req[r].pc = "idle"
    /\ \E h \in Headers(now), m \in Methods, u \in UrlForms :
          req' = [req EXCEPT ![r] =
                     isAuthenticatedRun(NewReq(h, [route |-> "createShortUrl", method |-> m,
                                                   url |-> u, urlId |-> ""]), now)]
    /\ UNCHANGED <<now, urls, returned, whiteList, users, reply, signedUp>>

(* The request leaves the middleware: it was answered, or handed on to a   *)
(* handler this specification does not follow.                             *)
Leave(r) ==
    /\ req[r].pc # "idle"
    /\ req' = [req EXCEPT ![r] = Idle]
    /\ UNCHANGED <<now, urls, returned, whiteList, users, reply, signedUp>>

NextAuth ==
    \/ \E r \in Reqs : isAuthenticatedAnyUrl(r)
    \/ \E r \in Reqs : Leave(r)
    \/ Tick

SpecAuth == Init /\ [][NextAuth]_vars

(* The user endpoints on their own. *)
NextUsers ==
    \/ \E r \in Reqs, u \in Users, password \in Passwords : signup(r, u, password)
    \/ \E r \in Reqs : signin(r)
    \/ Tick

SpecUsers == Init /\ [][NextUsers]_vars

----------------------------------------------------------------------------
(* Properties *)

(* isAuthenticated has run for the request of q (it runs without          *)
(* suspending, so it has returned too).                                    *)
Arrived(q) == q.pc # "idle"

HasHeader(q) == q.header # <<>>

(* The responses isAuthenticated itself sent. *)
ByMiddleware(q) == SelectSeq(q.responses, LAMBDA x : x.by = "isAuthenticated")

Response401(flag, message) ==
    [by |-> "isAuthenticated", status |-> 401, data |-> [tokenExpired |-> flag],
     message |-> message]

CarriesExpiredFlag(x) ==
    "tokenExpired" \in DOMAIN x.data /\ x.data.tokenExpired = 1

(* The request of q is one that arrived in this step. *)
Arrives(r) == req[r].pc = "idle" /\ req'[r].pc # "idle"

(* C1: a request whose Authorization header is present but does not start *)
(* with "Bearer " is answered with 401 and the token codec is never        *)
(* invoked for it.                                                         *)
C1_NonBearerRejectedBeforeCodec ==
    \A r \in Reqs :
        LET q == req[r]
        IN  (Arrived(q) /\ HasHeader(q) /\ ~q.header[1].bearer)
                => /\ q.codecCalls = 0
                   /\ Len(ByMiddleware(q)) = 1
                   /\ ByMiddleware(q)[1].status = 401

(* C2: whatever the name of the error the codec throws, once              *)
(* isAuthenticated has returned it has called next() or sent a response.   *)
C2_EveryPathAnswersOrContinues ==
    \A r \in Reqs :
        LET q == req[r]
        IN  Arrived(q) => (q.nextCalls > 0 \/ Len(q.responses) > 0)

(* C3: a request with no Authorization header whose url is "/urls/short"  *)
(* proceeds: next() is called exactly once, isAuthenticated sends no       *)
(* response, the codec is not invoked and req.user stays unset.            *)
C3_ExemptPathProceeds ==
    \A r \in Reqs :
        LET q == req[r]
        IN  (Arrived(q) /\ ~HasHeader(q) /\ q.url = "/urls/short")
                => /\ q.nextCalls = 1
                   /\ ByMiddleware(q) = <<>>
                   /\ q.codecCalls = 0
                   /\ q.user = <<>>
                   /\ q.pc = "createShortUrl" => q.responses = <<>>

C3_Witness ==
    \E r \in Reqs :
        /\ req[r].pc = "createShortUrl"
        /\ ~HasHeader(req[r])
        /\ req[r].url = "/urls/short"
        /\ req[r].nextCalls = 1

(* C4: a request with no Authorization header whose url is not exempt is  *)
(* answered 401 {tokenExpired: 0} "Failed to Authenticate"; next() is not  *)
(* called and no handler runs.                                             *)
C4_HeaderlessRejected ==
    \A r \in Reqs :
        LET q == req[r]
        IN  (Arrived(q) /\ ~HasHeader(q) /\ q.url # "/urls/short")
                => /\ q.responses = <<Response401(0, "Failed to Authenticate")>>
                   /\ q.nextCalls = 0
                   /\ q.pc = "done"
                   /\ q.serviceCalls = 0

C4_Witness ==
    \E r \in Reqs :
        /\ req[r].pc = "done"
        /\ ~HasHeader(req[r])
        /\ req[r].url = "/urls/c1"
        /\ Len(req[r].responses) = 1

(* C5: when the codec reports an expired token the answer is 401 with     *)
(* {tokenExpired: 1}, and no other answer carries tokenExpired = 1.        *)
C5_ExpiredFlagDistinguishes ==
    \A r \in Reqs :
        LET q == req[r]
        IN  /\ q.err = <<"TokenExpiredError">>
                => q.responses = <<Response401(1, "Token Expired")>>
            /\ \A i \in 1..Len(q.responses) :
                  CarriesExpiredFlag(q.responses[i])
                      => /\ q.err = <<"TokenExpiredError">>
                         /\ HasHeader(q)
                         /\ q.header[1].tok.kind = "signed"

C5_Witness ==
    \E r, s \in Reqs :
        /\ req[r].err = <<"TokenExpiredError">>
        /\ req[r].responses # <<>>
        /\ req[s].err = <<"JsonWebTokenError">>
        /\ req[s].responses # <<>>

(* C6: when the codec reports a malformed token the answer is 401         *)
(* {tokenExpired: 0} "Corrupt Token", next() is not called and req.user    *)
(* stays unset.                                                            *)
C6_CorruptTokenRejected ==
    \A r \in Reqs :
        LET q == req[r]
        IN  /\ q.err = <<"JsonWebTokenError">>
                => /\ q.responses = <<Response401(0, "Corrupt Token")>>
                   /\ q.nextCalls = 0
                   /\ q.user = <<>>
                   /\ q.pc = "done"
            /\ (Arrived(q) /\ HasHeader(q) /\ q.header[1].tok.kind = "malformed")
                => /\ q.err = <<"JsonWebTokenError">>
                   /\ q.codecCalls = 1

C6_Witness ==
    \E r \in Reqs :
        /\ req[r].err = <<"JsonWebTokenError">>
        /\ req[r].pc = "done"
        /\ req[r].header[1].bearer

(* C7: when the codec verifies the presented token, req.user is exactly   *)
(* the claims it returned, next() is called exactly once and               *)
(* isAuthenticated sends no response.                                      *)
C7_VerifiedIdentityAttached ==
    [][\A r \in Reqs :
          (Arrives(r) /\ HasHeader(req'[r])
                /\ decryptAccessToken(req'[r].header[1].tok, now).ok)
              => /\ req'[r].user = decryptAccessToken(req'[r].header[1].tok, now).claims
                 /\ Len(req'[r].user) = 1
                 /\ req'[r].nextCalls = 1
                 /\ req'[r].responses = <<>>
                 /\ req'[r].pc = req'[r].route]_vars

C7_Witness ==
    \E r, s \in Reqs :
        /\ req[r].pc = "getShortUrl"
        /\ req[r].user = <<[userId |-> "u1", email |-> "ann@example.com",
                          iat |-> 0, exp |-> TokenLifetime]>>
        /\ req[s].pc = "createShortUrl"
        /\ req[s].user = <<[userId |-> "u2", email |-> "bob@example.com",
                          iat |-> 0, exp |-> TokenLifetime]>>

Accepted(q, tok) ==
    /\ HasHeader(q)
    /\ q.header[1].tok = tok
    /\ q.nextCalls = 1
    /\ q.user = <<[userId |-> tok.userId, email |-> tok.email,
                    iat |-> tok.iat, exp |-> tok.exp]>>

RejectedExpired(q, tok) ==
    /\ HasHeader(q)
    /\ q.header[1].tok = tok
    /\ q.responses = <<Response401(1, "Token Expired")>>
    /\ q.nextCalls = 0
    /\ q.user = <<>>

(* C8: a token minted with lifetime L is accepted with its original       *)
(* claims when verified at a time not past issuedAt + L and rejected as    *)
(* expired at every later time; a token some request was rejected for as   *)
(* expired is not accepted for a later request.                            *)
C8_TokenLifetime ==
    [][\A r \in Reqs :
          (Arrives(r) /\ HasHeader(req'[r]) /\ req'[r].header[1].tok.kind = "signed")
              => LET tok == req'[r].header[1].tok
                 IN  /\ now <= tok.iat + TokenLifetime
                            => Accepted(req'[r], tok) /\ req'[r].responses = <<>>
                     /\ now > tok.iat + TokenLifetime
                            => RejectedExpired(req'[r], tok)
                     /\ (\E s \in Reqs : RejectedExpired(req[s], tok))
                            => ~Accepted(req'[r], tok)]_vars

C8_Witness ==
    \E r, s \in Reqs :
        /\ Accepted(req[r], mint("u1", 0))
        /\ RejectedExpired(req[s], mint("u1", 0))
        /\ now = TokenLifetime + 1

(* The last response of a request. *)
LastResponse(q) == q.responses[Len(q.responses)]

(* get reads the collection in this step. *)
GetReads(s) == req[s].pc = "get" /\ req'[s].pc # "get"

(* getShortUrl answers in this step. *)
GetAnswers(s) == req[s].pc = "getShortUrlResume" /\ req'[s].pc = "done"

(* C9: once createShortUrl has answered a request for url u with short    *)
(* code c, a getShortUrl for c that reaches get is answered with           *)
(* originalUrl u, whatever other requests ran in between.                  *)
C9_RoundTrip ==
    [][\A s \in Reqs : \A m \in returned :
          /\ (GetReads(s) /\ req[s].urlId = m.urlId)
                => req'[s].outcome = Resolved(m.originalUrl)
          /\ (GetAnswers(s) /\ req[s].urlId = m.urlId /\ req[s].outcome[1].ok)
                => req'[s].responses =
                       <<[by |-> "getShortUrl", status |-> 201,
                          data |-> [originalUrl |-> m.originalUrl],
                          message |-> "genericSuccess"]>>]_vars

C9_Witness ==
    \E s \in Reqs : \E m \in returned :
        /\ Cardinality(returned) = 2
        /\ req[s].route = "getShortUrl"
        /\ req[s].pc = "done"
        /\ req[s].serviceCalls = 1
        /\ req[s].urlId = m.urlId
        /\ LastResponse(req[s]).status = 201
        /\ LastResponse(req[s]).data = [originalUrl |-> m.originalUrl]

(* C10: for a code no mapping was ever created for, get fails with        *)
(* NotFound and getShortUrl answers 404; such a request is never answered  *)
(* with a success or a 500.                                                *)
C10_NeverCreatedNotFound ==
    [][\A s \in Reqs :
          /\ (GetReads(s) /\ ~\E m \in urls : m.urlId = req[s].urlId)
                => req'[s].outcome = Rejected("NotFound")
          /\ (GetAnswers(s) /\ req[s].outcome = Rejected("NotFound"))
                => /\ Len(req'[s].responses) = 1
                   /\ LastResponse(req'[s]).by = "getShortUrl"
                   /\ LastResponse(req'[s]).status = 404
          /\ (req'[s].route = "getShortUrl"
                /\ ~\E m \in urls' : m.urlId = req'[s].urlId)
                => \A i \in 1..Len(req'[s].responses) :
                      req'[s].responses[i].status \notin {200, 201, 500}]_vars

C10_Witness ==
    \E s \in Reqs :
        /\ req[s].route = "getShortUrl"
        /\ req[s].pc = "done"
        /\ req[s].serviceCalls = 1
        /\ urls # {}
        /\ ~\E m \in urls : m.urlId = req[s].urlId
        /\ LastResponse(req[s]).status = 404

(* C11: in every reachable state no two mappings of the collection hold   *)
(* the same short code, also when two creates have both generated their    *)
(* code before either has persisted.                                       *)
C11_ShortCodeUnique ==
    \A m1, m2 \in urls : m1.urlId = m2.urlId => m1 = m2

(* Two creates of different urls generated the same code before either     *)
(* persisted; one has inserted its mapping and the other was rejected.     *)
C11_Witness ==
    \E r, s \in Reqs :
        /\ r # s
        /\ req[r].newId # ""
        /\ req[r].newId = req[s].newId
        /\ req[r].body # req[s].body
        /\ req[r].outcome # <<>> /\ req[r].outcome[1].ok
        /\ req[s].outcome = Rejected("MongoServerError")
        /\ \E m \in urls : m.urlId = req[r].newId /\ m.originalUrl = req[r].body[1]

(* The request of q called create with an originalUrl that does not parse  *)
(* as an absolute URL.                                                     *)
CreatesInvalidUrl(q) ==
    /\ q.route = "createShortUrl"
    /\ q.args # <<>>
    /\ ~IsAbsoluteUrl(q.args[1].originalUrl)

(* C12: a create whose originalUrl does not parse as an absolute URL fails *)
(* with InvalidUrl, is answered 422 and never gets to the insert; every    *)
(* stored mapping's originalUrl is a well-formed absolute URL.             *)
C12_InvalidUrlRejected ==
    /\ \A m \in urls : IsAbsoluteUrl(m.originalUrl)
    /\ \A r \in Reqs :
          CreatesInvalidUrl(req[r])
              => /\ req[r].pc \in {"create", "createShortUrlResume", "done"}
                 /\ req[r].newId = ""
                 /\ req[r].pc # "create" => req[r].outcome = Rejected("InvalidUrl")
                 /\ req[r].pc = "done"
                       => /\ Len(req[r].responses) = 1
                          /\ req[r].responses[1].by = "createShortUrl"
                          /\ req[r].responses[1].status = 422

(* A create of a relative reference has been answered 422 while the store  *)
(* holds the mapping another create inserted.                              *)
C12_Witness ==
    \E r \in Reqs :
        /\ CreatesInvalidUrl(req[r])
        /\ req[r].pc = "done"
        /\ req[r].responses[1].status = 422
        /\ Cardinality(urls) = 1

Controllers == {"createShortUrl", "getShortUrl", "getAllShortUrlsByUser"}

(* C13: a request whose input validation reported errors is answered 422   *)
(* by its controller, and the service method is never invoked for it: no   *)
(* call, no arguments, no outcome of a read or write of the collection.    *)
C13_ValidationFailureSkipsService ==
    \A r \in Reqs :
        req[r].errors # <<>>
            => /\ req[r].route \in Controllers
               /\ req[r].pc = "done"
               /\ Len(req[r].responses) = 1
               /\ req[r].responses[1].by = req[r].route
               /\ req[r].responses[1].status = 422
               /\ req[r].responses[1].data = <<>>
               /\ req[r].serviceCalls = 0
               /\ req[r].args = <<>>
               /\ req[r].newId = ""
               /\ req[r].outcome = <<>>

(* Validation failed for a create and for a getAllShortUrlsByUser request. *)
C13_Witness ==
    \E r, s \in Reqs :
        /\ req[r].route = "createShortUrl" /\ req[r].errors # <<>>
        /\ req[s].route = "getAllShortUrlsByUser" /\ req[s].errors # <<>>
        /\ req[r].responses[1].status = 422
        /\ req[s].responses[1].status = 422

(* The handler of q's route has been entered. *)
HandlerEntered(q) == q.nextCalls = 1 /\ q.pc # q.route

(* The status the fixed mapping gives the way q's handler ended. *)
ExpectedStatus(q) ==
    IF q.errors # <<>> THEN 422
    ELSE IF q.outcome[1].ok THEN 201
    ELSE IF q.outcome[1].name = "InvalidUrl" THEN 422
    ELSE IF q.outcome[1].name = "NotFound" THEN 404
    ELSE IF q.outcome[1].name = "Unauthenticated" THEN 401
    ELSE 500

(* C14: every way a controller handler ends (validation failure, service   *)
(* success, service error of any kind) gives exactly one response, in the  *)
(* envelope shape, with the status of the fixed mapping; an error outside  *)
(* the taxonomy is answered 500. Until the handler ends nothing is sent.   *)
C14_OneEnvelopePerOutcome ==
    \A r \in Reqs :
        HandlerEntered(req[r])
            => IF req[r].pc = "done"
               THEN /\ req[r].errors # <<>> \/ req[r].outcome # <<>>
                    /\ Len(req[r].responses) = 1
                    /\ DOMAIN req[r].responses[1] = {"by", "status", "data", "message"}
                    /\ req[r].responses[1].by = req[r].route
                    /\ req[r].responses[1].status = ExpectedStatus(req[r])
               ELSE req[r].responses = <<>>

(* A create lost the race for its short code: the insert failed with an    *)
(* error outside the taxonomy and the request was answered 500.            *)
C14_Witness ==
    \E r \in Reqs :
        /\ req[r].pc = "done"
        /\ req[r].outcome = Rejected("MongoServerError")
        /\ req[r].responses[1].status = 500
        /\ req[r].responses[1].by = "createShortUrl"

(* C15: once a mapping has been created, no step of any operation changes  *)
(* its originalUrl or its short code or removes it: the mapping is in the  *)
(* collection after the step, and it is still the only one with its code.  *)
C15_MappingsImmutable ==
    [][\A m \in urls :
          /\ m \in urls'
          /\ \A n \in urls' : n.urlId = m.urlId => n = m]_vars

(* A mapping exists; after its creation a create that generated the same   *)
(* code has failed and a getShortUrl has read the mapping.                 *)
C15_Witness ==
    \E r, s \in Reqs :
        /\ req[r].pc = "done"
        /\ req[r].outcome = Rejected("MongoServerError")
        /\ req[s].pc = "done"
        /\ req[s].route = "getShortUrl"
        /\ req[s].outcome # <<>> /\ req[s].outcome[1].ok
        /\ \E m \in urls : m.urlId = req[r].newId /\ m.urlId = req[s].urlId

(* The reply to a signin with credentials signup has accepted: a token     *)
(* whose decoded claims carry the email.                                   *)
SigninSucceeded(x) ==
    /\ x.status = 200
    /\ Len(x.token) = 1
    /\ LET decoded == decryptAccessToken(x.token[1], x.token[1].iat)
       IN  decoded.ok /\ decoded.claims[1].email = x.email

(* The reply to a signin that failed on its credentials. *)
SigninRefused(x) ==
    /\ x.token = <<>>
    /\ x.status # 500
    /\ x.status = 401
    /\ x.error = "Unauthenticated"

OutcomeOf(q) ==
    [verdict |-> IF q.nextCalls = 1 /\ ByMiddleware(q) = <<>> THEN "next"
                 ELSE IF q.nextCalls = 0 /\ Len(ByMiddleware(q)) = 1
                         /\ ByMiddleware(q)[1].status = 401 THEN "401"
                 ELSE IF q.nextCalls = 0 /\ ByMiddleware(q) = <<>> THEN "none"
                 ELSE "both",
     user |-> q.user]

(* The outcome as a table of the request's own header and url, the header  *)
(* read against the clock at the time t of its verification.               *)
OutcomeTable(header, url, t) ==
    IF header = <<>>
    THEN [verdict |-> IF url = "/urls/short" THEN "next" ELSE "401", user |-> <<>>]
    ELSE LET tok == header[1].tok
         IN  IF tok.kind = "signed" /\ t <= tok.exp
             THEN [verdict |-> "next",
                   user |-> <<[userId |-> tok.userId, email |-> tok.email,
                               iat |-> tok.iat, exp |-> tok.exp]>>]
             ELSE IF tok.kind \in {"signed", "malformed", "invalid"}
             THEN [verdict |-> "401", user |-> <<>>]
             ELSE [verdict |-> "none", user |-> <<>>]

(* C17: requests are handled independently. Whatever the other request is  *)
(* doing, the outcome of a request at the middleware (next or 401, and the *)
(* identity in req.user) is the one its own header and url give; a step of *)
(* one request leaves the other request as it is; the identity a request   *)
(* carries stays the one decoded from its own header for as long as it is  *)
(* in flight; and the exemption list is never modified.                    *)
C17_RequestsIndependent ==
    [][/\ whiteList' = whiteList
       /\ \A r \in Reqs :
             /\ Arrives(r)
                   => OutcomeOf(req'[r]) = OutcomeTable(req'[r].header, req'[r].url, now)
             /\ \A s \in Reqs \ {r} : req'[s] # req[s] => req'[r] = req[r]
             /\ (req[r].pc # "idle" /\ req'[r].pc # "idle")
                   => /\ req'[r].user = req[r].user
                      /\ req'[r].header = req[r].header
                      /\ req'[r].url = req[r].url
             /\ req'[r].user # <<>>
                   => /\ HasHeader(req'[r])
                      /\ req'[r].user = <<ClaimsOf(req'[r].header[1].tok)>>]_vars

(* Two authenticated requests of different users are in the service at the *)
(* same time, each with its own identity.                                  *)
C17_Witness ==
    \E r, s \in Reqs :
        /\ req[r].pc = "save"
        /\ Len(req[r].user) = 1 /\ req[r].user[1].userId = "u1"
        /\ req[s].pc = "get"
        /\ Len(req[s].user) = 1 /\ req[s].user[1].userId = "u2"

(* C18: for one request isAuthenticated never both calls next() and sends  *)
(* a response, and it does each at most once.                              *)
C18_NextXorResponse ==
    \A r \in Reqs :
        /\ req[r].nextCalls <= 1
        /\ Len(ByMiddleware(req[r])) <= 1
        /\ ~(req[r].nextCalls >= 1 /\ Len(ByMiddleware(req[r])) >= 1)

(* One request was passed on by next() and is in its handler; the other    *)
(* was answered by the middleware.                                         *)
C18_Witness ==
    \E r, s \in Reqs :
        /\ req[r].nextCalls = 1 /\ ByMiddleware(req[r]) = <<>>
        /\ req[r].pc = "createShortUrl"
        /\ req[s].nextCalls = 0 /\ Len(ByMiddleware(req[s])) = 1
        /\ HasHeader(req[s])

(* The request of q went to the exempt url with an Authorization header.   *)
ExemptUrlWithHeader(q) == Arrived(q) /\ HasHeader(q) /\ q.url = "/urls/short"

(* C19: the exemption applies only when the Authorization header is        *)
(* absent. A request to '/urls/short' that carries a header is verified    *)
(* like any other: its token goes to the codec, and an expired or corrupt  *)
(* token is answered 401 and the handler is not reached.                   *)
C19_ExemptionOnlyWithoutHeader ==
    \A r \in Reqs :
        ExemptUrlWithHeader(req[r])
            => /\ req[r].codecCalls = 1
               /\ req[r].header[1].tok.kind = "malformed"
                     => req[r].err = <<"JsonWebTokenError">>
               /\ req[r].err \in {<<"TokenExpiredError">>, <<"JsonWebTokenError">>}
                     => /\ req[r].nextCalls = 0
                        /\ req[r].pc = "done"
                        /\ Len(req[r].responses) = 1
                        /\ req[r].responses[1].by = "isAuthenticated"
                        /\ req[r].responses[1].status = 401
                        /\ req[r].body = <<>>
                        /\ req[r].errors = <<>>
                        /\ req[r].serviceCalls = 0
               /\ req[r].nextCalls = 1
                     => req[r].user = <<ClaimsOf(req[r].header[1].tok)>>

(* A create request to '/urls/short' presented an expired token and was    *)
(* answered 401 with the expired flag.                                     *)
C19_Witness ==
    \E r \in Reqs :
        /\ ExemptUrlWithHeader(req[r])
        /\ req[r].route = "createShortUrl"
        /\ req[r].err = <<"TokenExpiredError">>
        /\ req[r].responses[1].status = 401
        /\ req[r].responses[1].data = [tokenExpired |-> 1]

(* C20: the exemption test is exact string equality between req.url and    *)
(* '/urls/short', whatever the method. A header-less request is passed on  *)
(* by next() if and only if its url is exactly that string; with a query   *)
(* string, a trailing slash or the mount prefix left on, it is answered    *)
(* 401.                                                                    *)
C20_ExemptionIsExactMatch ==
    \A r \in Reqs :
        (Arrived(req[r]) /\ ~HasHeader(req[r]))
            => /\ req[r].nextCalls = 1 <=> req[r].url = "/urls/short"
               /\ req[r].nextCalls = 1 => req[r].responses = <<>>
               /\ req[r].url \in {"/urls/short?ref=mail", "/urls/short/", "/api/v1/urls/short"}
                     => /\ req[r].nextCalls = 0
                        /\ req[r].pc = "done"
                        /\ req[r].responses = <<Response401(0, "Failed to Authenticate")>>

(* A header-less DELETE of '/urls/short' was passed on, and a header-less  *)
(* POST of the same route with a query string was answered 401.            *)
C20_Witness ==
    \E r, s \in Reqs :
        /\ ~HasHeader(req[r]) /\ req[r].method = "DELETE"
        /\ req[r].url = "/urls/short" /\ req[r].nextCalls = 1
        /\ ~HasHeader(req[s]) /\ req[s].method = "POST"
        /\ req[s].url = "/urls/short?ref=mail"
        /\ req[s].responses = <<Response401(0, "Failed to Authenticate")>>

(* createShortUrl has called create for the request of q. *)
CalledCreate(q) == q.route = "createShortUrl" /\ q.args # <<>>

(* C21: createShortUrl is independent of the caller's identity. Two        *)
(* requests with the same originalUrl and Origin header pass identical     *)
(* arguments to create, whether req.user is set or not; userId is always   *)
(* the empty string, and no stored mapping's owner reflects a req.user.    *)
C21_CreateIgnoresIdentity ==
    /\ \A r \in Reqs :
          CalledCreate(req[r])
              => /\ req[r].args[1].userId = ""
                 /\ req[r].args[1].originalUrl = req[r].body[1]
    /\ \A r, s \in Reqs :
          (/\ CalledCreate(req[r]) /\ CalledCreate(req[s])
           /\ req[r].body = req[s].body
           /\ req[r].args[1].baseURL = req[s].args[1].baseURL)
              => req[r].args = req[s].args
    /\ \A m \in urls : m.userId = "" /\ m.userId \notin Users

(* An authenticated request and a header-less one asked to shorten the     *)
(* same url from the same origin; the authenticated one's mapping is       *)
(* stored.                                                                 *)
C21_Witness ==
    \E r, s \in Reqs :
        /\ CalledCreate(req[r]) /\ CalledCreate(req[s])
        /\ Len(req[r].user) = 1 /\ req[r].user[1].userId = "u1"
        /\ req[s].user = <<>>
        /\ req[r].body = req[s].body
        /\ req[r].args[1].baseURL = req[s].args[1].baseURL
        /\ req[r].outcome # <<>> /\ req[r].outcome[1].ok
        /\ \E m \in urls : m.urlId = req[r].newId /\ m.originalUrl = req[r].body[1]
====
